---------------------------- MODULE Spec2Model ----------------------------
(***************************************************************************)
(* Pain Points Finder (src/src/App.jsx): the App component's state, its    *)
(* form events and the asynchronous handleSearch handler, with the         *)
(* JavaScript value semantics the response parsing depends on.             *)
(***************************************************************************)
EXTENDS Integers, Sequences, FiniteSets

(***************************************************************************)
(* JavaScript values.  A value is a record tagged by k:                    *)
(*   undefined, null, bool, num, str, arr (v a sequence of values),        *)
(*   obj (v a sequence of [key, val] members in insertion order).          *)
(***************************************************************************)
Undef == [k |-> "undefined"]
NullV == [k |-> "null"]
Bool(b) == [k |-> "bool", v |-> b]
Num(n) == [k |-> "num", v |-> n]
Str(s) == [k |-> "str", v |-> s]
Arr(s) == [k |-> "arr", v |-> s]
Obj(s) == [k |-> "obj", v |-> s]
M(key, val) == [key |-> key, val |-> val]

\* x is null or undefined: reading a property of x raises a TypeError
Nullish(x) == x.k \in {"undefined", "null"}

\* ToBoolean: what `if (x)`, `!x`, `x && y`, `x || y` test
Truthy(x) ==
    CASE x.k = "undefined" -> FALSE
      [] x.k = "null" -> FALSE
      [] x.k = "bool" -> x.v
      [] x.k = "num" -> x.v # 0
      [] x.k = "str" -> x.v # ""
      [] OTHER -> TRUE

\* x.key for a non-nullish x and a key that is no built-in property
\* (output, choices, output_text, type, content, text, summary, message, error)
GetProp(x, key) ==
    IF x.k = "obj" /\ \E i \in 1..Len(x.v) : x.v[i].key = key
    THEN x.v[CHOOSE i \in 1..Len(x.v) : x.v[i].key = key].val
    ELSE Undef

\* x[0] for a non-nullish x.  Of a non-empty string it is the first
\* character, a non-empty string without properties: the string itself stands
\* for it, as the code only tests it and reads its .message.
Index0(x) ==
    CASE x.k = "arr" -> IF Len(x.v) > 0 THEN x.v[1] ELSE Undef
      [] x.k = "str" -> IF x.v # "" THEN x ELSE Undef
      [] x.k = "obj" -> GetProp(x, "0")
      [] OTHER -> Undef

IsArray(x) == x.k = "arr"

Digit(d) ==
    CASE d = 0 -> "0" [] d = 1 -> "1" [] d = 2 -> "2" [] d = 3 -> "3"
      [] d = 4 -> "4" [] d = 5 -> "5" [] d = 6 -> "6" [] d = 7 -> "7"
      [] d = 8 -> "8" [] d = 9 -> "9"

RECURSIVE NatToString(_)
NatToString(n) ==
    IF n < 10 THEN Digit(n) ELSE NatToString(n \div 10) \o Digit(n % 10)

\* JSToString, as applied by `string + x` and by `new Error(x)`
RECURSIVE JSToString(_)
RECURSIVE JoinFrom(_, _)
JoinFrom(s, i) ==
    IF i > Len(s) THEN ""
    ELSE (IF i > 1 THEN "," ELSE "")
         \o (IF Nullish(s[i]) THEN "" ELSE JSToString(s[i]))
         \o JoinFrom(s, i + 1)
JSToString(x) ==
    CASE x.k = "undefined" -> "undefined"
      [] x.k = "null" -> "null"
      [] x.k = "bool" -> IF x.v THEN "true" ELSE "false"
      [] x.k = "num" -> NatToString(x.v)
      [] x.k = "str" -> x.v
      [] x.k = "arr" -> JoinFrom(x.v, 1)
      [] x.k = "obj" -> "[object Object]"

\* JSON.stringify(x) and JSON.stringify(x, null, 2) (pretty) of a value made
\* of null, booleans, naturals, strings, arrays and objects (the strings of
\* the model hold no character that needs escaping)
RECURSIVE Indent(_)
Indent(n) == IF n = 0 THEN "" ELSE "  " \o Indent(n - 1)
Quote(s) == "\"" \o s \o "\""
Break(depth, pretty) == IF pretty THEN "\n" \o Indent(depth) ELSE ""
RECURSIVE Stringify(_, _, _)
RECURSIVE StringifyItems(_, _, _, _)
RECURSIVE StringifyMembers(_, _, _, _)
StringifyItems(s, i, depth, pretty) ==
    IF i > Len(s) THEN ""
    ELSE (IF i > 1 THEN "," ELSE "") \o Break(depth, pretty)
         \o Stringify(s[i], depth, pretty)
         \o StringifyItems(s, i + 1, depth, pretty)
StringifyMembers(s, i, depth, pretty) ==
    IF i > Len(s) THEN ""
    ELSE (IF i > 1 THEN "," ELSE "") \o Break(depth, pretty)
         \o Quote(s[i].key) \o (IF pretty THEN ": " ELSE ":")
         \o Stringify(s[i].val, depth, pretty)
         \o StringifyMembers(s, i + 1, depth, pretty)
Stringify(x, depth, pretty) ==
    CASE x.k = "null" -> "null"
      [] x.k = "bool" -> IF x.v THEN "true" ELSE "false"
      [] x.k = "num" -> NatToString(x.v)
      [] x.k = "str" -> Quote(x.v)
      [] x.k = "arr" ->
           IF Len(x.v) = 0 THEN "[]"
           ELSE "[" \o StringifyItems(x.v, 1, depth + 1, pretty)
                \o Break(depth, pretty) \o "]"
      [] x.k = "obj" ->
           IF Len(x.v) = 0 THEN "{}"
           ELSE "{" \o StringifyMembers(x.v, 1, depth + 1, pretty)
                \o Break(depth, pretty) \o "}"
JSONstringify(x) == Stringify(x, 0, FALSE)
JSONstringifyPretty(x) == Stringify(x, 0, TRUE)

(***************************************************************************)
(* Text typed into the URL input is a sequence of characters, so that      *)
(* new URL(text) can be computed from it.                                   *)
(***************************************************************************)
RECURSIVE Join(_)
Join(cs) == IF cs = <<>> THEN "" ELSE Head(cs) \o Join(Tail(cs))

Alpha == {"a", "b", "c", "d", "e", "f", "g", "h", "i", "j", "k", "l", "m",
          "n", "o", "p", "q", "r", "s", "t", "u", "v", "w", "x", "y", "z"}
Digits == {"0", "1", "2", "3", "4", "5", "6", "7", "8", "9"}
SpecialSchemes == {"http", "https", "ftp", "ws", "wss", "file"}
ForbiddenHostChars == {" ", "#", "/", ":", "<", ">", "?", "@", "[", "\\", "]", "^", "|", "%"}

\* the least index >= from of a character of cs in set, Len(cs) + 1 if none
RECURSIVE FindFrom(_, _, _)
FindFrom(cs, set, from) ==
    IF from > Len(cs) THEN Len(cs) + 1
    ELSE IF cs[from] \in set THEN from
    ELSE FindFrom(cs, set, from + 1)

\* the least index >= from of a character of cs not in set, Len(cs) + 1 if none
RECURSIVE SkipFrom(_, _, _)
SkipFrom(cs, set, from) ==
    IF from > Len(cs) THEN Len(cs) + 1
    ELSE IF cs[from] \notin set THEN from
    ELSE SkipFrom(cs, set, from + 1)

\* new URL(cs).hostname for lower-case ASCII text without base URL:
\* [ok |-> FALSE] when the constructor throws.  A scheme is a letter followed
\* by letters, digits, +, - or . up to a colon; a special scheme skips
\* slashes and needs a non-empty host of allowed characters with an optional
\* numeric port; any other scheme has a host only after "//".
URLhostname(cs) ==
    LET colon == SkipFrom(cs, Alpha \cup Digits \cup {"+", "-", "."}, 1)
        hasScheme == /\ Len(cs) > 0 /\ cs[1] \in Alpha
                     /\ colon <= Len(cs) /\ cs[colon] = ":"
        scheme == Join(SubSeq(cs, 1, colon - 1))
        special == scheme \in SpecialSchemes
        slashes == IF special THEN {"/", "\\"} ELSE {"/"}
        start == IF special THEN SkipFrom(cs, slashes, colon + 1) ELSE colon + 3
        hasAuthority ==
            \/ special
            \/ /\ colon + 2 <= Len(cs) /\ cs[colon + 1] = "/" /\ cs[colon + 2] = "/"
        stop == FindFrom(cs, slashes \cup {"?", "#"}, start)
        authority == SubSeq(cs, start, stop - 1)
        at == CHOOSE i \in 0..Len(authority) :
                 /\ i = 0 \/ authority[i] = "@"
                 /\ \A j \in (i + 1)..Len(authority) : authority[j] # "@"
        hostport == SubSeq(authority, at + 1, Len(authority))
        portAt == FindFrom(hostport, {":"}, 1)
        host == SubSeq(hostport, 1, portAt - 1)
        port == SubSeq(hostport, portAt + 1, Len(hostport))
    IN  IF ~hasScheme THEN [ok |-> FALSE, hostname |-> ""]
        ELSE IF ~hasAuthority THEN [ok |-> TRUE, hostname |-> ""]
        ELSE IF \/ special /\ host = <<>>
                \/ \E i \in 1..Len(host) : host[i] \in ForbiddenHostChars
                \/ \E i \in 1..Len(port) : port[i] \notin Digits
             THEN [ok |-> FALSE, hostname |-> ""]
        ELSE [ok |-> TRUE, hostname |-> Join(host)]

(***************************************************************************)
(* handleSearch: building the request (lines 30-70 and 79-83).              *)
(***************************************************************************)
DeveloperUrlPrompt == "You are a helpful assistant. Search the provided url and give me the company pain points. Format your response in clean Markdown with headers and bullet points."
DeveloperSearchPrompt == "You are a helpful assistant. Do web search and give me the company pain points. Format your response in clean Markdown with headers and bullet points."

Message(role, content) == Obj(<<M("role", Str(role)), M("content", Str(content))>>)

\* a domain that is always the text as typed
DomainVerbatim(url) == Join(url)

\* let domain = companyUrl; try { domain = new URL(companyUrl).hostname }
\* catch (e) { domain = companyUrl }
Domain(url) ==
    IF URLhostname(url).ok THEN URLhostname(url).hostname ELSE Join(url)

\* tools that carry a domain filter whatever the target
BuildToolsAlwaysFiltered(name, url) ==
    Arr(<<Obj(<<M("type", Str("web_search")),
                M("filters", Obj(<<M("allowed_domains",
                                    Arr(<<Str(Domain(url))>>))>>))>>)>>)

\* the locals tools and messages after the if (isUrlProvided) statement
BuildTools(name, url) ==
    IF url # <<>>
    THEN Arr(<<Obj(<<M("type", Str("web_search")),
                     M("filters", Obj(<<M("allowed_domains",
                                         Arr(<<Str(Domain(url))>>))>>))>>)>>)
    ELSE Arr(<<Obj(<<M("type", Str("web_search"))>>)>>)

\* messages with the user message before the developer message
BuildMessagesUserFirst(name, url) ==
    IF url # <<>>
    THEN Arr(<<Message("user", "Find pain points for " \o Join(url)),
               Message("developer", DeveloperUrlPrompt)>>)
    ELSE Arr(<<Message("user", "Find pain points for company: " \o name),
               Message("developer", DeveloperSearchPrompt)>>)

BuildMessages(name, url) ==
    IF url # <<>>
    THEN Arr(<<Message("developer", DeveloperUrlPrompt),
               Message("user", "Find pain points for " \o Join(url))>>)
    ELSE Arr(<<Message("developer", DeveloperSearchPrompt),
               Message("user", "Find pain points for company: " \o name)>>)

\* the object handed to JSON.stringify for the request body
Payload(name, url) ==
    Obj(<<M("model", Str("gpt-5-nano")),
          M("tools", BuildTools(name, url)),
          M("input", BuildMessages(name, url))>>)

\* the arguments of the fetch call
FetchCall(key, name, url) ==
    [url |-> "https://api.openai.com/v1/responses",
     method |-> "POST",
     contentType |-> "application/json",
     authorization |-> "Bearer " \o key,
     payload |-> Payload(name, url),
     body |-> JSONstringify(Payload(name, url))]

(***************************************************************************)
(* handleSearch: reading the response (lines 86-127).  An evaluation       *)
(* either completes or throws; what a thrown error's message says depends  *)
(* on the JavaScript engine, so a throw carries the set of messages the    *)
(* engines give.                                                            *)
(***************************************************************************)
\* reading property prop of base, whose value val is null or undefined
TypeErrorMessages(base, val, prop) ==
    {"Cannot read properties of " \o JSToString(val) \o " (reading '" \o prop \o "')",
     "can't access property \"" \o prop \o "\", " \o base \o " is " \o JSToString(val)}

Threw(msgs) == [threw |-> TRUE, msgs |-> msgs, content |-> Undef, reasoning |-> Undef]
Completed(content, reasoning) ==
    [threw |-> FALSE, msgs |-> {}, content |-> content, reasoning |-> reasoning]

\* item.content.forEach(part => { if (part.type === 'output_text') content += part.text })
RECURSIVE ForEachPart(_, _, _)
ForEachPart(parts, i, acc) ==
    IF acc.threw \/ i > Len(parts) THEN acc
    ELSE IF Nullish(parts[i])
         THEN Threw(TypeErrorMessages("part", parts[i], "type"))
    ELSE IF GetProp(parts[i], "type") = Str("output_text")
         THEN ForEachPart(parts, i + 1,
                  Completed(Str(acc.content.v \o JSToString(GetProp(parts[i], "text"))),
                            acc.reasoning))
    ELSE ForEachPart(parts, i + 1, acc)

\* the body of data.output.forEach(item => ...) for one item
OutputItem(item, acc) ==
    IF Nullish(item) THEN Threw(TypeErrorMessages("item", item, "type"))
    ELSE
      LET content == GetProp(item, "content")
          afterMessage ==
              IF GetProp(item, "type") = Str("message") /\ Truthy(content)
              THEN IF IsArray(content) THEN ForEachPart(content.v, 1, acc)
                   ELSE IF content.k = "str"
                        THEN Completed(Str(acc.content.v \o content.v), acc.reasoning)
                   ELSE acc
              ELSE acc
      IN  IF afterMessage.threw THEN afterMessage
          ELSE IF GetProp(item, "type") = Str("reasoning")
               THEN Completed(afterMessage.content, GetProp(item, "summary"))
          ELSE afterMessage

RECURSIVE ForEachItem(_, _, _)
ForEachItem(items, i, acc) ==
    IF acc.threw \/ i > Len(items) THEN acc
    ELSE ForEachItem(items, i + 1, OutputItem(items[i], acc))

\* the Markdown code fence, three grave accents: a TLA+ string cannot hold
\* that character, so the fence is written with tildes
Fence == "~~~"
FallbackContent(data) ==
    "Could not parse standard response format. Raw Output:\n" \o Fence \o "json\n"
        \o JSONstringifyPretty(data) \o "\n" \o Fence

\* lines 94-125: content and reasoning from the decoded body
ParseResponse(data) ==
    IF Nullish(data) THEN Threw(TypeErrorMessages("data", data, "output"))
    ELSE IF Truthy(GetProp(data, "output")) /\ IsArray(GetProp(data, "output"))
         THEN ForEachItem(GetProp(data, "output").v, 1, Completed(Str(""), NullV))
    ELSE IF /\ Truthy(GetProp(data, "choices"))
            /\ Truthy(Index0(GetProp(data, "choices")))
            /\ Truthy(GetProp(Index0(GetProp(data, "choices")), "message"))
         THEN Completed(GetProp(GetProp(Index0(GetProp(data, "choices")), "message"),
                                "content"),
                        NullV)
    ELSE IF Truthy(GetProp(data, "output_text"))
         THEN Completed(GetProp(data, "output_text"), NullV)
    ELSE Completed(Str(FallbackContent(data)), NullV)

\* lines 87-88: new Error(errData.error?.message || response.statusText).message
ApiErrorMessage(errData, statusText) ==
    IF Nullish(errData) THEN Threw(TypeErrorMessages("errData", errData, "error"))
    ELSE LET err == GetProp(errData, "error")
             message == IF Nullish(err) THEN Undef ELSE GetProp(err, "message")
         IN  Completed(Str(JSToString(IF Truthy(message) THEN message
                                      ELSE Str(statusText))),
                       NullV)

(***************************************************************************)
(* Inputs of the model: the credential of the environment, the texts the   *)
(* user types, and what the transport answers.                              *)
(***************************************************************************)
MaxSubmits == 2

ApiKeys == {"", "sk-test"}
Names == {"", "Tesla"}
UrlTesla == <<"h", "t", "t", "p", "s", ":", "/", "/", "t", "e", "s", "l", "a", ".", "c", "o", "m", "/", "x">>
UrlNotAUrl == <<"n", "o", "t", " ", "a", " ", "u", "r", "l">>
Urls == {<<>>, UrlTesla, UrlNotAUrl}

\* response.ok and response.statusText
Heads == {[ok |-> TRUE, statusText |-> "OK"],
          [ok |-> FALSE, statusText |-> "Unauthorized"],
          [ok |-> FALSE, statusText |-> ""]}

OutputText(text) == Obj(<<M("type", Str("output_text")), M("text", Str(text))>>)
MessageItem(content) == Obj(<<M("type", Str("message")), M("content", content)>>)
ReasoningItem(summary) == Obj(<<M("type", Str("reasoning")), M("summary", Str(summary))>>)
Choice(members) == Obj(<<M("message", Obj(members))>>)

BodyHello == Obj(<<M("output", Arr(<<MessageItem(Arr(<<OutputText("Hello, "), OutputText("world.")>>))>>))>>)
BodyReasoning == Obj(<<M("output", Arr(<<ReasoningItem("R1"), MessageItem(Str("Plain")),
                                        MessageItem(Arr(<<Obj(<<M("type", Str("refusal"))>>), OutputText(" text")>>)),
                                        ReasoningItem("R2")>>))>>)
BodyOutputEmpty == Obj(<<M("output", Arr(<<>>))>>)
BodyOutputNullItem == Obj(<<M("output", Arr(<<NullV>>))>>)
BodyOutputNumberItem == Obj(<<M("output", Arr(<<Num(5)>>))>>)
BodyMessageNoParts == Obj(<<M("output", Arr(<<MessageItem(Arr(<<>>))>>))>>)
BodyMessageNullPart == Obj(<<M("output", Arr(<<MessageItem(Arr(<<NullV>>))>>))>>)
BodyPartNoText == Obj(<<M("output", Arr(<<MessageItem(Arr(<<Obj(<<M("type", Str("output_text"))>>)>>))>>))>>)
BodyAllShapes == Obj(<<M("output", Arr(<<MessageItem(Str("O"))>>)),
                       M("choices", Arr(<<Choice(<<M("content", Str("X"))>>)>>)),
                       M("output_text", Str("Y"))>>)
BodyOutputNotArray == Obj(<<M("output", Str("O")), M("output_text", Str("Y"))>>)
BodyChoices == Obj(<<M("choices", Arr(<<Choice(<<M("content", Str("X"))>>)>>))>>)
BodyChoicesAndText == Obj(<<M("choices", Arr(<<Choice(<<M("content", Str("X"))>>)>>)),
                            M("output_text", Str("Y"))>>)
BodyChoiceNoContent == Obj(<<M("choices", Arr(<<Choice(<<>>)>>)), M("output_text", Str("Y"))>>)
BodyChoiceEmptyContent == Obj(<<M("choices", Arr(<<Choice(<<M("content", Str(""))>>)>>))>>)
BodySecondChoice == Obj(<<M("choices", Arr(<<Obj(<<>>), Choice(<<M("content", Str("X"))>>)>>)),
                          M("output_text", Str("Y"))>>)
BodyOutputText == Obj(<<M("output_text", Str("Y"))>>)
BodyOutputTextNumber == Obj(<<M("output_text", Num(5))>>)
BodyOutputTextEmpty == Obj(<<M("output_text", Str(""))>>)
BodyFoo == Obj(<<M("foo", Str("bar"))>>)
BodyBadKey == Obj(<<M("error", Obj(<<M("message", Str("bad key"))>>))>>)
BodyErrorNoMessage == Obj(<<M("error", Obj(<<M("code", Num(401))>>))>>)
BodyErrorNull == Obj(<<M("error", NullV)>>)
BodyErrorObjectMessage == Obj(<<M("error", Obj(<<M("message", Obj(<<M("text", Str("bad key"))>>))>>))>>)

\* the decoded JSON bodies the transport can deliver
Bodies ==
    {BodyHello, BodyReasoning, BodyOutputEmpty, BodyOutputNullItem, BodyOutputNumberItem,
     BodyMessageNoParts, BodyMessageNullPart, BodyPartNoText, BodyAllShapes,
     BodyOutputNotArray, BodyChoices, BodyChoicesAndText, BodyChoiceNoContent,
     BodyChoiceEmptyContent, BodySecondChoice, BodyOutputText, BodyOutputTextNumber,
     BodyOutputTextEmpty, BodyFoo, BodyBadKey, BodyErrorNoMessage, BodyErrorNull,
     BodyErrorObjectMessage, NullV, Num(5), Str("text"), Arr(<<>>), Obj(<<>>)}

\* the message of the TypeError a failed fetch rejects with
FetchRejections == {"Failed to fetch", "NetworkError when attempting to fetch resource."}
\* the message of the SyntaxError response.json() rejects with
JsonRejections == {"Unexpected token '<', \"<html>\" is not valid JSON",
                   "JSON.parse: unexpected character at line 1 column 1 of the JSON data"}

(***************************************************************************)
(* State.                                                                   *)
(***************************************************************************)
VARIABLES
    apiKey,       \* useState(import.meta.env.VITE_OPENAI_API_KEY || '')
    companyName,  \* useState('')
    companyUrl,   \* useState(''), as a sequence of characters
    loading,      \* useState(false)
    result,       \* useState(null): null or {content, reasoning}
    error,        \* useState(null): null or a string
    handlers,     \* the handleSearch calls that passed validation, in order:
                  \* where each stands (fetch, json, done) and its response
    sent,         \* the fetch calls made, in order
    last          \* the latest event and, for a response, what was received

vars == <<apiKey, companyName, companyUrl, loading, result, error, handlers, sent, last>>

Event(op, id, head, decoded, data) ==
    [op |-> op, id |-> id, ok |-> head.ok, statusText |-> head.statusText,
     decoded |-> decoded, data |-> data]
NoHead == [ok |-> FALSE, statusText |-> ""]

Result(content, reasoning) == Obj(<<M("content", content), M("reasoning", reasoning)>>)

Init ==
    /\ apiKey \in ApiKeys
    /\ companyName = ""
    /\ companyUrl = <<>>
    /\ loading = FALSE
    /\ result = NullV
    /\ error = NullV
    /\ handlers = <<>>
    /\ sent = <<>>
    /\ last = Event("mount", 0, NoHead, FALSE, Undef)

(***************************************************************************)
(* The form (lines 158-202).                                                *)
(***************************************************************************)
\* disabled={!!companyUrl || loading}
NameInputDisabled == companyUrl # <<>> \/ loading
\* a URL input that stays enabled while a company name is entered
UrlInputDisabledWhileLoading == loading
\* disabled={!!companyName || loading}
UrlInputDisabled == companyName # "" \/ loading
\* a button that is never disabled
SubmitNeverDisabled == FALSE
\* <button type="submit" disabled={loading}>
SubmitDisabled == loading

\* onChange={(e) => setCompanyName(e.target.value)}
ChangeCompanyName ==
    /\ ~NameInputDisabled
    /\ \E value \in Names \ {companyName} :
          /\ companyName' = value
          /\ last' = Event("changeName", 0, NoHead, FALSE, Undef)
    /\ UNCHANGED <<apiKey, companyUrl, loading, result, error, handlers, sent>>

\* onChange={(e) => setCompanyUrl(e.target.value)}
ChangeCompanyUrl ==
    /\ ~UrlInputDisabled
    /\ \E value \in Urls \ {companyUrl} :
          /\ companyUrl' = value
          /\ last' = Event("changeUrl", 0, NoHead, FALSE, Undef)
    /\ UNCHANGED <<apiKey, companyName, loading, result, error, handlers, sent>>

(***************************************************************************)
(* handleSearch (lines 15-134).  It runs without interruption up to the    *)
(* await of fetch, again up to the await of response.json(), and then to   *)
(* its end.                                                                 *)
(***************************************************************************)
\* no error: what setError(null) stores
NoError == NullV

\* the validation with the target checked before the credential
ValidationErrorTargetFirst(key, name, url) ==
    IF name = "" /\ url = <<>> THEN Str("Please provide a company name or URL.")
    ELSE IF key = "" THEN Str("API Key not found in environment.")
    ELSE NoError

\* the validation without the target check
ValidationErrorNoTarget(key, name, url) ==
    IF key = "" THEN Str("API Key not found in environment.")
    ELSE NoError

\* lines 17-24: the error the validation stores, NoError when it passes
ValidationError(key, name, url) ==
    IF key = "" THEN Str("API Key not found in environment.")
    ELSE IF name = "" /\ url = <<>> THEN Str("Please provide a company name or URL.")
    ELSE NoError

\* a catch block that calls fetch again with the same request
CatchFinallyRetry(message) ==
    /\ error' = Str(message)
    /\ loading' = FALSE
    /\ sent' = Append(sent, sent[Len(sent)])

\* a catch block without the finally block's setLoading(false)
CatchWithoutFinally(message) ==
    /\ error' = Str(message)
    /\ loading' = loading
    /\ sent' = sent

\* lines 129-133: catch (err) { setError(err.message) } finally
\* { setLoading(false) }; no further fetch call is made
CatchFinally(message) ==
    /\ error' = Str(message)
    /\ loading' = FALSE
    /\ sent' = sent

\* lines 72-84: the handler's fetch call; the handler then waits for the response
Dispatch ==
    /\ sent' = Append(sent, FetchCall(apiKey, companyName, companyUrl))
    /\ handlers' = Append(handlers, [pc |-> "fetch", ok |-> FALSE, statusText |-> ""])

\* the form's submit event: lines 16-84, up to the await of fetch
Submit ==
    /\ ~SubmitDisabled
    /\ \/ ValidationError(apiKey, companyName, companyUrl) # NoError
       \/ Len(handlers) < MaxSubmits
    /\ last' = Event("submit", 0, NoHead, FALSE, Undef)
    /\ IF ValidationError(apiKey, companyName, companyUrl) # NoError
       THEN /\ error' = ValidationError(apiKey, companyName, companyUrl)
            /\ UNCHANGED <<loading, result, handlers, sent>>
       ELSE /\ loading' = TRUE
            /\ error' = NoError
            /\ result' = NullV
            /\ Dispatch
    /\ UNCHANGED <<apiKey, companyName, companyUrl>>

Finish(id) == [handlers EXCEPT ![id] = [pc |-> "done", ok |-> FALSE, statusText |-> ""]]

\* fetch resolves with a response: line 73 to the await of response.json()
\* (line 87 or 91)
FetchResolve ==
    \E id \in 1..Len(handlers) : \E head \in Heads :
        /\ handlers[id].pc = "fetch"
        /\ handlers' = [handlers EXCEPT ![id] =
                           [pc |-> "json", ok |-> head.ok, statusText |-> head.statusText]]
        /\ last' = Event("response", id, head, FALSE, Undef)
        /\ UNCHANGED <<apiKey, companyName, companyUrl, loading, result, error, sent>>

\* fetch rejects: lines 129-133
FetchReject ==
    \E id \in 1..Len(handlers) : \E message \in FetchRejections :
        /\ handlers[id].pc = "fetch"
        /\ CatchFinally(message)
        /\ handlers' = Finish(id)
        /\ last' = Event("fetchRejected", id, NoHead, FALSE, Undef)
        /\ UNCHANGED <<apiKey, companyName, companyUrl, result>>

\* response.json() rejects, the body being no JSON: lines 129-133
JsonReject ==
    \E id \in 1..Len(handlers) : \E message \in JsonRejections :
        /\ handlers[id].pc = "json"
        /\ CatchFinally(message)
        /\ handlers' = Finish(id)
        /\ last' = Event("body", id, handlers[id], FALSE, Undef)
        /\ UNCHANGED <<apiKey, companyName, companyUrl, result>>

\* response.json() resolves with the decoded body: lines 86-133
JsonResolve ==
    \E id \in 1..Len(handlers) : \E data \in Bodies :
        /\ handlers[id].pc = "json"
        /\ LET outcome == IF handlers[id].ok THEN ParseResponse(data)
                          ELSE ApiErrorMessage(data, handlers[id].statusText)
           IN  IF outcome.threw
               THEN /\ \E message \in outcome.msgs : CatchFinally(message)
                    /\ UNCHANGED result
               ELSE IF ~handlers[id].ok
               THEN /\ CatchFinally(outcome.content.v)
                    /\ UNCHANGED result
               ELSE /\ result' = Result(outcome.content, outcome.reasoning)
                    /\ loading' = FALSE
                    /\ UNCHANGED <<error, sent>>
        /\ handlers' = Finish(id)
        /\ last' = Event("body", id, handlers[id], TRUE, data)
        /\ UNCHANGED <<apiKey, companyName, companyUrl>>

Next ==
    \/ ChangeCompanyName
    \/ ChangeCompanyUrl
    \/ Submit
    \/ FetchResolve
    \/ FetchReject
    \/ JsonReject
    \/ JsonResolve

Spec == Init /\ [][Next]_vars

\* The transport eventually resolves or rejects an outstanding fetch, and the
\* reading of a response's body eventually resolves or rejects; the handler
\* then runs on to its end.
FairSpec ==
    /\ Spec
    /\ WF_vars(FetchResolve \/ FetchReject)
    /\ WF_vars(JsonResolve \/ JsonReject)

(***************************************************************************)
(* What the presentation layer shows (lines 191-227), in the words of the  *)
(* lifecycle: in flight, failed with a message, succeeded.                  *)
(***************************************************************************)
InFlight == loading
Failed(message) == ~loading /\ error = Str(message)
Succeeded == ~loading /\ Truthy(result)

\* the handlers whose transport call has not completed
Outstanding == {id \in 1..Len(handlers) : handlers[id].pc # "done"}

(***************************************************************************)
(* Properties.                                                              *)
(***************************************************************************)

\* C1: at every reachable state at most one transport call is outstanding;
\* while a submission is in flight no second transport call is issued.
C1_AtMostOneOutstanding ==
    /\ Cardinality(Outstanding) <= 1
    /\ Outstanding # {} => InFlight

\* a second submission's call is outstanding, the first having completed
C1_Witness ==
    /\ Len(sent) = 2
    /\ Outstanding = {2}
    /\ InFlight

\* C2: a submit with an empty credential, whatever the company name and URL
\* (both empty included), ends in Failed with "API Key not found in
\* environment." and makes no transport call: the credential is checked
\* before the target.
C2_EmptyCredentialFails ==
    [][(last'.op = "submit" /\ apiKey = "")
          => /\ Failed("API Key not found in environment.")'
             /\ sent' = sent
             /\ handlers' = handlers
             /\ sent' = <<>>]_vars

\* a submit with an empty credential and both texts empty has failed on the credential
C2_Witness ==
    /\ last.op = "submit"
    /\ apiKey = ""
    /\ companyName = "" /\ companyUrl = <<>>
    /\ Failed("API Key not found in environment.")
    /\ sent = <<>>

\* C3: a submit with a credential and both company name and URL empty ends
\* in Failed with "Please provide a company name or URL." and makes no
\* transport call.
C3_EmptyTargetFails ==
    [][(last'.op = "submit" /\ apiKey # "" /\ companyName = "" /\ companyUrl = <<>>)
          => /\ Failed("Please provide a company name or URL.")'
             /\ sent' = sent
             /\ handlers' = handlers]_vars

\* such a submit has failed, after an earlier submission was dispatched
C3_Witness ==
    /\ last.op = "submit"
    /\ apiKey # ""
    /\ companyName = "" /\ companyUrl = <<>>
    /\ Failed("Please provide a company name or URL.")
    /\ Len(sent) = 1

\* exactly one of the company name and the company URL is non-empty
ExactlyOneTarget == (companyName # "") # (companyUrl # <<>>)

C5_ResultAndErrorNeverCoexist ==
    ~(result # NullV /\ error # NullV)

\* C6: whenever the transport call returns a success status and the body
\* decodes, the state becomes Succeeded, never Failed, whatever the body:
\* reading the response never raises.
C6_SuccessStatusSucceeds ==
    (last.op = "body" /\ last.ok /\ last.decoded)
        => Succeeded /\ error = NullV

\* the message the body of an error response carries, or none
CarriesMessage(data) ==
    /\ data.k = "obj"
    /\ GetProp(data, "error").k = "obj"
    /\ GetProp(GetProp(data, "error"), "message").k = "str"
    /\ GetProp(GetProp(data, "error"), "message").v # ""
CarriedMessage(data) == GetProp(GetProp(data, "error"), "message").v

\* C7: after a non-success status the state is Failed, with the body's
\* error.message when the body decodes and carries one, and with the
\* response's status text otherwise, also when the body is no JSON.
C7_NonSuccessMessage ==
    (last.op = "body" /\ ~last.ok)
        => IF last.decoded /\ CarriesMessage(last.data)
           THEN Failed(CarriedMessage(last.data))
           ELSE Failed(last.statusText)

\* C8: every submission that passes validation issues exactly one transport
\* call, whatever its outcome: none is made after a failure until the user
\* submits again, and the calls never outnumber the validated submissions.
C8_OneCallPerSubmission ==
    Len(sent) = Len(handlers)

\* a validated submission has failed and one call has been made
C8_Witness ==
    /\ last.op \in {"fetchRejected", "body"}
    /\ error # NullV
    /\ ~InFlight
    /\ Len(handlers) = 1 /\ Len(sent) = 1

\* the body has an output sequence without any item of kind "message"
OutputWithoutMessage(data) ==
    /\ data.k = "obj"
    /\ IsArray(GetProp(data, "output"))
    /\ \A i \in 1..Len(GetProp(data, "output").v) :
          LET item == GetProp(data, "output").v[i]
          IN  ~(item.k = "obj" /\ GetProp(item, "type") = Str("message"))

\* C9: in every Succeeded state the stored content is a defined string, and
\* it is empty only when the body has an output sequence that contains no
\* item of kind "message".
C9_ContentIsString ==
    (last.op = "body" /\ Succeeded)
        => /\ GetProp(result, "content").k = "str"
           /\ GetProp(result, "content") = Str("") => OutputWithoutMessage(last.data)

\* the content the stated precedence gives: the output rule for a body with
\* an output sequence, else the content of a choices entry whose
\* message.content exists, else a top-level output_text string, else the
\* diagnostic fallback
HasChoiceContent(data, i) ==
    /\ GetProp(data, "choices").v[i].k = "obj"
    /\ GetProp(GetProp(data, "choices").v[i], "message").k = "obj"
    /\ GetProp(GetProp(GetProp(data, "choices").v[i], "message"), "content") # Undef
StatedContent(data) ==
    IF data.k = "obj" /\ IsArray(GetProp(data, "output"))
    THEN ForEachItem(GetProp(data, "output").v, 1, Completed(Str(""), NullV)).content
    ELSE IF /\ data.k = "obj" /\ IsArray(GetProp(data, "choices"))
            /\ \E i \in 1..Len(GetProp(data, "choices").v) : HasChoiceContent(data, i)
    THEN LET i == CHOOSE i \in 1..Len(GetProp(data, "choices").v) :
                     /\ HasChoiceContent(data, i)
                     /\ \A j \in 1..(i - 1) : ~HasChoiceContent(data, j)
         IN  GetProp(GetProp(GetProp(data, "choices").v[i], "message"), "content")
    ELSE IF data.k = "obj" /\ GetProp(data, "output_text").k = "str"
    THEN GetProp(data, "output_text")
    ELSE Str(FallbackContent(data))

\* C10: shape detection follows the precedence output, choices, output_text,
\* fallback, the first match winning.
C10_Precedence ==
    (last.op = "body" /\ Succeeded)
        => GetProp(result, "content") = StatedContent(last.data)

\* the body has an output sequence
HasOutputSequence(data) == data.k = "obj" /\ IsArray(GetProp(data, "output"))

\* the texts of the sub-items of kind "output_text" from the i-th on, in order
RECURSIVE StatedPartsText(_, _)
StatedPartsText(parts, i) ==
    IF i > Len(parts) THEN ""
    ELSE (IF parts[i].k = "obj" /\ GetProp(parts[i], "type") = Str("output_text")
          THEN JSToString(GetProp(parts[i], "text"))
          ELSE "")
         \o StatedPartsText(parts, i + 1)

\* what the items of kind "message" from the i-th on contribute, in order
RECURSIVE StatedItemsText(_, _)
StatedItemsText(items, i) ==
    IF i > Len(items) THEN ""
    ELSE (IF items[i].k = "obj" /\ GetProp(items[i], "type") = Str("message")
          THEN IF IsArray(GetProp(items[i], "content"))
               THEN StatedPartsText(GetProp(items[i], "content").v, 1)
               ELSE IF GetProp(items[i], "content").k = "str"
               THEN GetProp(items[i], "content").v
               ELSE ""
          ELSE "")
         \o StatedItemsText(items, i + 1)

\* the summary of the last item of kind "reasoning", null when there is none
StatedReasoning(items) ==
    LET reasonings == {i \in 1..Len(items) :
                          /\ items[i].k = "obj"
                          /\ GetProp(items[i], "type") = Str("reasoning")}
    IN  IF reasonings = {} THEN NullV
        ELSE GetProp(items[CHOOSE i \in reasonings : \A j \in reasonings : j <= i],
                     "summary")

\* C11: for a body with an output sequence, content is the in-order
\* concatenation, over the items of kind "message", of the text of every
\* sub-item of kind "output_text" (content a sequence) or of the content
\* itself (a plain string); reasoning is the summary of the last item of
\* kind "reasoning", unset when there is none.
C11_OutputRule ==
    (last.op = "body" /\ last.ok /\ last.decoded /\ HasOutputSequence(last.data))
        => /\ Succeeded
           /\ GetProp(result, "content")
                 = Str(StatedItemsText(GetProp(last.data, "output").v, 1))
           /\ GetProp(result, "reasoning")
                 = StatedReasoning(GetProp(last.data, "output").v)

\* the body has the choices shape: a choices sequence with an entry whose
\* message.content exists
HasChoicesShape(data) ==
    /\ data.k = "obj" /\ IsArray(GetProp(data, "choices"))
    /\ \E i \in 1..Len(GetProp(data, "choices").v) : HasChoiceContent(data, i)

\* the body has the output_text shape: a top-level output_text string
HasOutputTextShape(data) == data.k = "obj" /\ GetProp(data, "output_text").k = "str"

\* the body matches none of the three shapes
UnrecognizedShape(data) ==
    ~HasOutputSequence(data) /\ ~HasChoicesShape(data) /\ ~HasOutputTextShape(data)

\* C12: for every success body that matches none of the output, choices and
\* output_text shapes, and only for such bodies, the state is Succeeded with
\* the diagnostic content holding the pretty-printed body and reasoning
\* unset; a body of the choices shape or of the output_text shape gives that
\* string with reasoning unset.
C12_FallbackOnlyWhenUnrecognized ==
    (last.op = "body" /\ last.ok /\ last.decoded)
        => /\ UnrecognizedShape(last.data)
                => /\ Succeeded
                   /\ result = Result(Str(FallbackContent(last.data)), NullV)
           /\ (Succeeded /\ GetProp(result, "content") = Str(FallbackContent(last.data)))
                => UnrecognizedShape(last.data)
           /\ (~HasOutputSequence(last.data)
               /\ (HasChoicesShape(last.data) \/ HasOutputTextShape(last.data)))
                => /\ Succeeded
                   /\ result = Result(StatedContent(last.data), NullV)

\* the tools and the messages of a fetch call, and its user message's text
ToolsOf(call) == GetProp(call.payload, "tools").v
InputOf(call) == GetProp(call.payload, "input").v
UserTextOf(call) == GetProp(InputOf(call)[2], "content")
\* the step dispatched a request
Dispatched == Len(sent') = Len(sent) + 1
\* the submit event of the step passes validation with a URL or a name target
SubmitsUrl == last'.op = "submit" /\ apiKey # "" /\ companyUrl # <<>>
SubmitsName == last'.op = "submit" /\ apiKey # "" /\ companyName # "" /\ companyUrl = <<>>

\* C13: every dispatched request carries exactly one tool, of type
\* web_search, and exactly two messages, a developer message followed by a
\* user message.
C13_OneToolTwoMessages ==
    \A i \in 1..Len(sent) :
        /\ Len(ToolsOf(sent[i])) = 1
        /\ GetProp(ToolsOf(sent[i])[1], "type") = Str("web_search")
        /\ Len(InputOf(sent[i])) = 2
        /\ GetProp(InputOf(sent[i])[1], "role") = Str("developer")
        /\ GetProp(InputOf(sent[i])[2], "role") = Str("user")

\* two requests have been dispatched, one with and one without a domain filter
C13_Witness ==
    /\ Len(sent) = 2
    /\ \E i, j \in 1..2 :
          /\ GetProp(ToolsOf(sent[i])[1], "filters") # Undef
          /\ GetProp(ToolsOf(sent[j])[1], "filters") = Undef

\* C14: for every URL target u the request is built and dispatched; its
\* allowed_domains filter holds exactly one entry, u's hostname when u
\* parses as a URL and u itself when it does not, and the user message is
\* "Find pain points for " followed by u as typed.
C14_UrlTarget ==
    [][SubmitsUrl =>
          /\ Dispatched
          /\ LET call == sent'[Len(sent')]
                 domains == GetProp(GetProp(ToolsOf(call)[1], "filters"), "allowed_domains")
             IN  /\ IsArray(domains) /\ Len(domains.v) = 1
                 /\ domains.v[1] = IF URLhostname(companyUrl).ok
                                   THEN Str(URLhostname(companyUrl).hostname)
                                   ELSE Str(Join(companyUrl))
                 /\ companyUrl = UrlTesla => domains.v[1] = Str("tesla.com")
                 /\ companyUrl = UrlNotAUrl => domains.v[1] = Str("not a url")
                 /\ UserTextOf(call) = Str("Find pain points for " \o Join(companyUrl))]_vars

\* a parsed and an unparsed URL have each been dispatched
C14_Witness ==
    /\ Len(sent) = 2
    /\ \E i, j \in 1..2 :
          /\ GetProp(GetProp(ToolsOf(sent[i])[1], "filters"), "allowed_domains")
                = Arr(<<Str("tesla.com")>>)
          /\ UserTextOf(sent[i]) = Str("Find pain points for https://tesla.com/x")
          /\ GetProp(GetProp(ToolsOf(sent[j])[1], "filters"), "allowed_domains")
                = Arr(<<Str("not a url")>>)
          /\ UserTextOf(sent[j]) = Str("Find pain points for not a url")

\* C15: for every company-name target n the request carries a web_search
\* tool without domain filter and the user message "Find pain points for
\* company: " followed by n; a dispatched request has a domain filter if and
\* only if the target is a URL.
C15_NameTarget ==
    [][/\ SubmitsName =>
             /\ Dispatched
             /\ ToolsOf(sent'[Len(sent')]) = <<Obj(<<M("type", Str("web_search"))>>)>>
             /\ UserTextOf(sent'[Len(sent')])
                   = Str("Find pain points for company: " \o companyName)
       /\ Dispatched =>
             (GetProp(ToolsOf(sent'[Len(sent')])[1], "filters") # Undef
                 <=> companyUrl # <<>>)]_vars

\* a request for the company name Tesla has been dispatched
C15_Witness ==
    \E i \in 1..Len(sent) :
        /\ ToolsOf(sent[i]) = <<Obj(<<M("type", Str("web_search"))>>)>>
        /\ UserTextOf(sent[i]) = Str("Find pain points for company: Tesla")

\* C16: the transport eventually returning or raising, every submission that
\* passes validation eventually leaves InFlight: loading becomes true only
\* with the dispatch of the call and eventually becomes false again,
\* whatever the outcome; a validation failure never sets loading to true.
C16_EventuallyNotLoading ==
    /\ InFlight ~> ~InFlight
    /\ [][/\ (InFlight' /\ ~InFlight) => Dispatched
          /\ (last'.op = "submit"
              /\ (apiKey = "" \/ (companyName = "" /\ companyUrl = <<>>)))
                => ~InFlight']_vars

\* the parsing of a success response has thrown and loading is false again
C16_Witness ==
    /\ last.op = "body" /\ last.ok /\ last.decoded
    /\ error # NullV
    /\ ~InFlight
    /\ Outstanding = {}

\* the latest event is the end of a dispatched submission
Resolved == last.op \in {"body", "fetchRejected"}

\* C17: whenever a dispatched submission has resolved, exactly one outcome is
\* visible: a result with no error, or a non-empty error message with no
\* result, for every status, status text and body.
C17_ExactlyOneOutcome ==
    (Resolved /\ ~InFlight)
        => \/ Truthy(result) /\ error = NullV
           \/ result = NullV /\ error.k = "str" /\ error.v # ""

\* C18: the stored result or error belongs to the most recently dispatched
\* submission: a submission that writes its result or error is the latest
\* one dispatched.
C18_LatestSubmissionWrites ==
    Resolved => last.id = Len(handlers)

\* the second submission has stored its result, the first having resolved before
C18_Witness ==
    /\ last.op = "body"
    /\ last.id = 2
    /\ Len(handlers) = 2
    /\ Succeeded
    /\ Outstanding = {}

=============================================================================
